---- MODULE Spec2Model ----
(***************************************************************************)
(* redlux: AAC decoder facade for MPEG-4 containers and raw ADTS streams.  *)
(*                                                                         *)
(* Part 1 models src/src/adts.rs (the 7-byte ADTS header builder) with the *)
(* integer widths of the code (u8 / u16).                                  *)
(* Part 2 models src/src/lib.rs (Decoder::new_aac, Decoder::new_mpeg4,     *)
(* Decoder::decode_next_sample and Iterator::next) together with the three *)
(* external collaborators the code drives: the byte reader, the mp4        *)
(* demuxer and the fdk-aac transport decoder.                              *)
(***************************************************************************)
EXTENDS Integers, Sequences, FiniteSets, TLC

VARIABLES
  input,              \* the file handed to the constructor (environment)
  ctor,               \* outcome of the constructor: "none" before it ran
  format,             \* Decoder.format
  bytes,              \* Decoder.bytes
  current_pcm_index,  \* Decoder.current_pcm_index
  current_pcm,        \* Decoder.current_pcm
  track_id,           \* Decoder.track_id
  position,           \* Decoder.position
  iter_error,         \* Decoder.iter_error
  dec,                \* Decoder.aac_decoder: its internal transport buffer
  src_pos,            \* Decoder.reader (raw): bytes of the source already read
  adts,               \* the latest construct_adts_header call: arguments, result
  last,               \* what the latest call of next() did and returned
  emitted,            \* number of samples next() has yielded so far
  starved             \* some fill so far took less than the decoder had room for

vars == <<input, ctor, format, bytes, current_pcm_index, current_pcm, track_id,
          position, iter_error, dec, src_pos, adts, last, emitted, starved>>

decoderVars == <<input, ctor, format, bytes, current_pcm_index, current_pcm,
                 track_id, position, iter_error, dec, src_pos, last, emitted,
                 starved>>

(***************************************************************************)
(* Fixed-width integer arithmetic.                                         *)
(***************************************************************************)
Pow2(n) == 2 ^ n

Min(a, b) == IF a <= b THEN a ELSE b

\* x << n on a w-bit unsigned integer: bits shifted past the width are lost.
Shl(x, n, w) == (x * Pow2(n)) % Pow2(w)

\* x >> n on an unsigned integer.
Shr(x, n) == x \div Pow2(n)

\* a | b on unsigned integers of at most w bits.
RECURSIVE BitOr(_, _, _)
BitOr(a, b, w) ==
  IF w = 0 THEN 0
  ELSE (IF a % 2 = 1 \/ b % 2 = 1 THEN 1 ELSE 0)
       + 2 * BitOr(a \div 2, b \div 2, w - 1)

\* `x as u8`
AsU8(x) == x % 256

\* `x as u16`
AsU16(x) == x % 65536

(***************************************************************************)
(* src/src/adts.rs                                                         *)
(***************************************************************************)

\* get_bits(byte: u16, range: Range<u16>): range.start = s, range.end = e.
get_bits(byte, s, e) ==
  LET shaved_left == Shl(byte, s - 1, 16)
      moved_back  == Shr(shaved_left, s - 1)
      shave_right == Shr(moved_back, 16 - e)
  IN  shave_right

\* get_bits_u8(byte: u8, range: Range<u8>)
get_bits_u8(byte, s, e) ==
  LET shaved_left == Shl(byte, s - 1, 8)
      moved_back  == Shr(shaved_left, s - 1)
      shave_right == Shr(moved_back, 8 - e)
  IN  shave_right

\* let adts_header_length = 7;
adts_header_length == 7

\* The variants of mp4::AudioObjectType the model draws from: the three the
\* builder accepts and three it does not.
SupportedObjectTypes ==
  {"AacLowComplexity", "SpectralBandReplication", "ParametricStereo"}

AudioObjectTypes ==
  SupportedObjectTypes \cup {"AacMain", "AacScalableSampleRate", "AacLongTermPrediction"}

\* mp4::SampleFreqIndex, a variant named by its frequency in Hz.
SampleFreqIndexes ==
  {96000, 88200, 64000, 48000, 44100, 32000, 24000, 22050, 16000, 12000,
   11025, 8000, 7350}

\* mp4::ChannelConfig
ChannelConfigs == {"Mono", "Stereo", "Three", "Four", "Five", "FiveOne", "SevenOne"}

\* match object_type { ... }: the ADTS object type, 0 for the rejected variants.
ObjectTypeCode(object_type) ==
  CASE object_type = "AacLowComplexity"        -> 2
    [] object_type = "SpectralBandReplication" -> 2
    [] object_type = "ParametricStereo"        -> 2
    [] OTHER                                   -> 0

\* match sample_freq_index { ... }
SampleFreqIndexCode(sample_freq_index) ==
  CASE sample_freq_index = 96000 -> 0
    [] sample_freq_index = 88200 -> 1
    [] sample_freq_index = 64000 -> 2
    [] sample_freq_index = 48000 -> 3
    [] sample_freq_index = 44100 -> 4
    [] sample_freq_index = 32000 -> 5
    [] sample_freq_index = 24000 -> 6
    [] sample_freq_index = 22050 -> 7
    [] sample_freq_index = 16000 -> 8
    [] sample_freq_index = 12000 -> 9
    [] sample_freq_index = 11025 -> 10
    [] sample_freq_index = 8000  -> 11
    [] sample_freq_index = 7350  -> 12

\* match channel_config { ... }
ChannelConfigCode(channel_config) ==
  CASE channel_config = "Mono"     -> 1
    [] channel_config = "Stereo"   -> 2
    [] channel_config = "Three"    -> 3
    [] channel_config = "Four"     -> 4
    [] channel_config = "Five"     -> 5
    [] channel_config = "FiveOne"  -> 6
    [] channel_config = "SevenOne" -> 7

\* byte2, EEFF_FFGH: profile, frequency index, the G bit, channel high bit.
\* A variant of Byte2 that leaves the frequency index out of the byte.
Byte2DropFreq(adts_object_type, freq_code, chan_code) ==
  LET e == BitOr(Shl(0, 2, 8), adts_object_type, 8)
      f == BitOr(Shl(e, 4, 8), 0, 8)
      g == BitOr(Shl(f, 1, 8), 1, 8)
  IN  BitOr(Shl(g, 1, 8), get_bits_u8(chan_code, 6, 6), 8)

Byte2(adts_object_type, freq_code, chan_code) ==
  LET e == BitOr(Shl(0, 2, 8), adts_object_type, 8)     \* EE
      f == BitOr(Shl(e, 4, 8), freq_code, 8)            \* FFFF
      g == BitOr(Shl(f, 1, 8), 1, 8)                    \* G: | 0b1
  IN  BitOr(Shl(g, 1, 8), get_bits_u8(chan_code, 6, 6), 8)  \* H

\* byte3, HHIJ_KLMM: channel low bits, the IJKL bits, frame length high bits.
\* A variant of Byte3 that takes the frame-length bits from the wrong range.
Byte3WrongRange(chan_code, frame_length) ==
  LET hh   == BitOr(Shl(0, 2, 8), get_bits_u8(chan_code, 7, 8), 8)
      ijkl == BitOr(Shl(hh, 4, 8), 15, 8)
  IN  BitOr(Shl(ijkl, 2, 8), AsU8(get_bits(frame_length, 4, 6)), 8)

Byte3(chan_code, frame_length) ==
  LET hh   == BitOr(Shl(0, 2, 8), get_bits_u8(chan_code, 7, 8), 8)  \* HH
      ijkl == BitOr(Shl(hh, 4, 8), 15, 8)                           \* IJKL: | 0b1111
  IN  BitOr(Shl(ijkl, 2, 8), AsU8(get_bits(frame_length, 3, 5)), 8) \* MM

\* byte4, MMMM_MMMM
Byte4(frame_length) == AsU8(get_bits(frame_length, 6, 13))

\* byte5, MMMO_OOOO
Byte5(frame_length) ==
  LET m == BitOr(Shl(0, 3, 8), AsU8(get_bits(frame_length, 14, 16)), 8)
  IN  BitOr(Shl(m, 5, 8), 31, 8)

\* byte6, OOOO_OOPP
Byte6 == BitOr(Shl(BitOr(Shl(0, 6, 8), 63, 8), 2, 8), 0, 8)

\* A result of construct_adts_header: Ok(bytes) or Err(UnsupportedObjectType(aot)).
HeaderOk(b) == [ok |-> TRUE, bytes |-> b, aot |-> ""]

HeaderErr(aot) == [ok |-> FALSE, bytes |-> <<>>, aot |-> aot]

\* A variant of construct_adts_header that accepts every object type.
construct_adts_header_any(object_type, sample_freq_index, channel_config, len) ==
  LET frame_length == AsU16(adts_header_length + AsU16(len))
  IN  HeaderOk(<<255, 241,
                 Byte2(1, SampleFreqIndexCode(sample_freq_index),
                       ChannelConfigCode(channel_config)),
                 Byte3(ChannelConfigCode(channel_config), frame_length),
                 Byte4(frame_length), Byte5(frame_length), Byte6>>)

\* construct_adts_header(object_type, sample_freq_index, channel_config, sample),
\* len = sample.bytes.len()
construct_adts_header(object_type, sample_freq_index, channel_config, len) ==
  IF ObjectTypeCode(object_type) = 0
  THEN HeaderErr(object_type)
  ELSE LET byte0 == 255                      \* 0b1111_1111
           byte1 == 241                      \* 0b1111_0001
           adts_object_type == ObjectTypeCode(object_type) - 1
           freq_code == SampleFreqIndexCode(sample_freq_index)
           chan_code == ChannelConfigCode(channel_config)
           frame_length == AsU16(adts_header_length + AsU16(len))
       IN  HeaderOk(<<byte0, byte1,
                      Byte2(adts_object_type, freq_code, chan_code),
                      Byte3(chan_code, frame_length),
                      Byte4(frame_length),
                      Byte5(frame_length),
                      Byte6>>)

(***************************************************************************)
(* Bounds of the model.  The code's two buffer sizes of 8192 and the       *)
(* decoder's internal buffer are scaled down so that TLC can enumerate     *)
(* every read size and every buffer content.                               *)
(***************************************************************************)
\* vec![0; 8192 - old_bytes_len]: the size the raw byte buffer is topped up to.
ByteCap == 10

\* vec![0; 8192]: the length of the PCM buffer handed to decode_frame.
PcmCap == 4

\* Capacity of the transport buffer inside the fdk-aac decoder.
DecCap == 9

\* Most samples one frame decodes to (and most payload bytes of one frame).
MaxFrameSamples == 2

\* Most frames of a raw source.
MaxFrames == 2

\* Most samples of a container track.
MaxSamples == 2

(***************************************************************************)
(* Error values of src/src/lib.rs (enum Error) and fdk_aac::DecoderError.  *)
(***************************************************************************)
NOT_ENOUGH_BITS == "NOT_ENOUGH_BITS"

TRANSPORT_SYNC_ERROR == "TRANSPORT_SYNC_ERROR"

PARSE_ERROR == "PARSE_ERROR"

INVALID_HANDLE == "INVALID_HANDLE"

DecoderErrors == {NOT_ENOUGH_BITS, TRANSPORT_SYNC_ERROR, PARSE_ERROR, INVALID_HANDLE}

\* Option<Error>::None
NoError == [e |-> "None", code |-> "", aot |-> ""]

FileHeaderError == [e |-> "FileHeaderError", code |-> "", aot |-> ""]

TrackReadingError == [e |-> "TrackReadingError", code |-> "", aot |-> ""]

UnsupportedObjectType(aot) == [e |-> "UnsupportedObjectType", code |-> "", aot |-> aot]

TrackNotFound == [e |-> "TrackNotFound", code |-> "", aot |-> ""]

TrackDecodingError(code) == [e |-> "TrackDecodingError", code |-> code, aot |-> ""]

SamplesError == [e |-> "SamplesError", code |-> "", aot |-> ""]

ReaderError == [e |-> "ReaderError", code |-> "", aot |-> ""]

(***************************************************************************)
(* The fdk-aac decoder (external): Transport::Adts.  It keeps the bytes it *)
(* was filled with, parses one ADTS frame per decode_frame call and, in    *)
(* this model, decodes a payload byte b in 1..127 to the PCM sample b; a   *)
(* payload holding any other byte is a frame it cannot parse.  A frame     *)
(* that is a header and nothing else decodes to no sample at all: the      *)
(* decoder then reports a decoded frame size of 0.                         *)
(***************************************************************************)
\* The 13-bit frame length of the ADTS header at the head of buf.
HeaderFrameLength(buf) == (buf[4] % 4) * 2048 + buf[5] * 8 + buf[6] \div 32

RECURSIVE SkipToSync(_)
SkipToSync(buf) ==
  IF buf = <<>> \/ buf[1] = 255 THEN buf ELSE SkipToSync(Tail(buf))

DecodeResult(code, buf, pcm) == [code |-> code, buf |-> buf, pcm |-> pcm]

\* AacDecoder::decode_frame on the internal buffer buf: the result code, the
\* buffer left and the decoded samples.
DecodeFrame(buf) ==
  IF buf = <<>> THEN DecodeResult(NOT_ENOUGH_BITS, buf, <<>>)
  ELSE IF buf[1] # 255 THEN DecodeResult(TRANSPORT_SYNC_ERROR, SkipToSync(buf), <<>>)
  ELSE IF Len(buf) < 2 THEN DecodeResult(NOT_ENOUGH_BITS, buf, <<>>)
  ELSE IF buf[2] \div 16 # 15
       THEN DecodeResult(TRANSPORT_SYNC_ERROR, SkipToSync(Tail(buf)), <<>>)
  ELSE IF Len(buf) < adts_header_length THEN DecodeResult(NOT_ENOUGH_BITS, buf, <<>>)
  ELSE LET flen == HeaderFrameLength(buf)
       IN  IF flen < adts_header_length
           THEN DecodeResult(TRANSPORT_SYNC_ERROR, SkipToSync(Tail(buf)), <<>>)
           ELSE IF Len(buf) < flen THEN DecodeResult(NOT_ENOUGH_BITS, buf, <<>>)
           ELSE LET payload == SubSeq(buf, adts_header_length + 1, flen)
                    rest    == SubSeq(buf, flen + 1, Len(buf))
                IN  IF \A i \in 1..Len(payload) : payload[i] \in 1..127
                    THEN DecodeResult("OK", rest, payload)
                    ELSE DecodeResult(PARSE_ERROR, rest, <<>>)

\* AacDecoder::fill: the numbers of leading bytes of data the decoder may report
\* as taken: all that its buffer has room for, or none.
FillCounts(buf, data) == {0, Min(Len(data), DecCap - Len(buf))}

(***************************************************************************)
(* Input files (environment).                                              *)
(***************************************************************************)
\* The payload of a frame that decodes to s samples.
ValidPayload(s) == [i \in 1..s |-> i]

\* A payload the decoder cannot parse.
CorruptPayload == <<0>>

\* An ADTS frame as an encoder writes it: AAC-LC, 44100 Hz, stereo, flag bits 0.
EncodedFrame(payload) ==
  LET flen == adts_header_length + Len(payload)
  IN  <<255, 241, 80, 128 + flen \div 2048, (flen \div 8) % 256,
        (flen % 8) * 32 + 31, 252>> \o payload

\* The units a raw source is made of: valid frames, a corrupt frame, a frame
\* with no payload, a stray byte.
ValidUnits == {EncodedFrame(ValidPayload(s)) : s \in {1, MaxFrameSamples}}

BadUnits == {EncodedFrame(CorruptPayload), EncodedFrame(<<>>), <<7>>}

RawUnits == ValidUnits \cup BadUnits

RECURSIVE Concat(_)
Concat(ss) == IF ss = <<>> THEN <<>> ELSE Head(ss) \o Concat(Tail(ss))

\* Sources of at most MaxFrames units, at most one of them not a valid frame.
RawFrameLists ==
  {fl \in UNION {[1..n -> RawUnits] : n \in 0..MaxFrames} :
     Cardinality({i \in 1..Len(fl) : fl[i] \in BadUnits}) <= 1}

\* Track metadata the demuxer may report.  profile / chan "Err" and freq 0 stand
\* for an accessor that fails.
TrackMetas ==
  {[media |-> "AAC", profile |-> "AacLowComplexity", freq |-> 44100, chan |-> "Stereo"],
   [media |-> "AAC", profile |-> "SpectralBandReplication", freq |-> 48000, chan |-> "Mono"],
   [media |-> "AAC", profile |-> "AacMain", freq |-> 44100, chan |-> "Stereo"],
   [media |-> "AAC", profile |-> "Err", freq |-> 44100, chan |-> "Stereo"],
   [media |-> "AAC", profile |-> "AacLowComplexity", freq |-> 0, chan |-> "Stereo"],
   [media |-> "AAC", profile |-> "AacLowComplexity", freq |-> 44100, chan |-> "Err"],
   [media |-> "H264", profile |-> "Err", freq |-> 0, chan |-> "Err"],
   [media |-> "Err", profile |-> "Err", freq |-> 0, chan |-> "Err"]}

\* The samples of a track: n samples, the i-th decoding to ((i-1) % MaxFrameSamples)+1
\* PCM samples, except sample number bad (if any), which is corrupt.
SampleList(n, bad) ==
  [i \in 1..n |-> IF i = bad THEN CorruptPayload
                  ELSE ValidPayload(((i - 1) % MaxFrameSamples) + 1)]

SampleLists == {SampleList(n, bad) : n \in 0..MaxSamples, bad \in 0..MaxSamples}

Tracks ==
  {[media |-> m.media, profile |-> m.profile, freq |-> m.freq, chan |-> m.chan,
    samples |-> IF m.media = "AAC" THEN sl ELSE <<>>] :
      m \in TrackMetas, sl \in SampleLists}

\* Track ids of a container: the keys of Mp4Reader::tracks().
TrackIds == {1, 2}

\* The orders in which HashMap::values() may visit the tracks with ids in ids.
Orders(ids) ==
  {o \in UNION {[1..n -> ids] : n \in 0..Cardinality(TrackIds)} :
     /\ Len(o) = Cardinality(ids)
     /\ \A i, j \in 1..Len(o) : i # j => o[i] # o[j]}

RawInputs ==
  {[kind |-> "aac", src |-> Concat(fl), units |-> fl, parsable |-> FALSE,
    tracks |-> <<>>, order |-> <<>>] : fl \in RawFrameLists}

Mp4Inputs ==
  UNION {UNION {{[kind |-> "mp4", src |-> <<>>, units |-> <<>>, parsable |-> TRUE,
                  tracks |-> t, order |-> o] : o \in Orders(ids)} :
                t \in [ids -> Tracks]} : ids \in SUBSET TrackIds}
    \cup {[kind |-> "mp4", src |-> <<>>, units |-> <<>>, parsable |-> FALSE,
           tracks |-> <<>>, order |-> <<>>]}

(***************************************************************************)
(* src/src/lib.rs: the constructors.                                       *)
(***************************************************************************)
\* for track in mp4.tracks().values() { ... break on the first AAC track }:
\* Some(track id) as that id, None as 0.  A track whose media_type() fails
\* ("Err") is skipped.
RECURSIVE FirstAacTrack(_, _)
\* A variant of FirstAacTrack that takes the first track whatever its media type.
FirstAnyTrack(order, tracks) ==
  IF order = <<>> THEN 0 ELSE Head(order)

FirstAacTrack(order, tracks) ==
  IF order = <<>> THEN 0
  ELSE IF tracks[Head(order)].media = "AAC" THEN Head(order)
  ELSE FirstAacTrack(Tail(order), tracks)

\* No construct_adts_header call yet.
NoHeaderCall ==
  [called |-> FALSE, object_type |-> "", sample_freq_index |-> 0,
   channel_config |-> "", len |-> 0, result |-> HeaderErr("")]

\* What next() reports when it has not run.
NoPull ==
  [ret |-> "", value |-> 0, err |-> NoError, n_decode |-> 0, n_fetch |-> 0,
   n_fill |-> 0, n_header |-> 0, code1 |-> "", code2 |-> "", eos |-> FALSE,
   fetched |-> FALSE, sample_len |-> 0, consumed |-> 0, index |-> 0,
   held |-> <<>>, fill_in |-> <<>>, fill_ok |-> FALSE, room |-> 0, request |-> 0,
   bytes_read |-> 0, frame_size |-> 0, sample_id |-> 0]

\* Decoder::new_aac(reader)
NewAac ==
  /\ ctor = "none"
  /\ input.kind = "aac"
  /\ ctor' = "ok"
  /\ format' = "Aac"
  /\ bytes' = <<>>
  /\ current_pcm_index' = 0
  /\ current_pcm' = <<>>
  /\ track_id' = 0
  /\ position' = 1
  /\ iter_error' = NoError
  /\ dec' = <<>>
  /\ src_pos' = 0
  /\ UNCHANGED <<input, adts, last, emitted, starved>>

\* Decoder::new_mpeg4(reader, size)
NewMpeg4 ==
  /\ ctor = "none"
  /\ input.kind = "mp4"
  /\ IF ~input.parsable
     THEN /\ ctor' = "FileHeaderError"     \* read_header(..).or(Err(FileHeaderError))?
          /\ UNCHANGED <<format, bytes, current_pcm_index, current_pcm, track_id,
                         position, iter_error, dec, src_pos>>
     ELSE LET found == FirstAacTrack(input.order, input.tracks)
          IN  IF found = 0
              THEN /\ ctor' = "TrackNotFound"
                   /\ UNCHANGED <<format, bytes, current_pcm_index, current_pcm,
                                  track_id, position, iter_error, dec, src_pos>>
              ELSE /\ ctor' = "ok"
                   /\ format' = "Mp4"
                   /\ bytes' = <<>>
                   /\ current_pcm_index' = 0
                   /\ current_pcm' = <<>>
                   /\ track_id' = found
                   /\ position' = 1
                   /\ iter_error' = NoError
                   /\ dec' = <<>>
                   /\ src_pos' = 0
  /\ UNCHANGED <<input, adts, last, emitted, starved>>

(***************************************************************************)
(* src/src/lib.rs: Decoder::decode_next_sample.  The call is computed on a *)
(* record r of the fields it may change plus a trace of what it did:       *)
(* ret is "cont" while the call runs and "item" (Ok(Some)), "none"         *)
(* (Ok(None)), "err" (Err) or "panic" once it has returned.                *)
(***************************************************************************)
Start ==
  [bytes |-> bytes, current_pcm_index |-> current_pcm_index,
   current_pcm |-> current_pcm, position |-> position, dec |-> dec,
   src_pos |-> src_pos, adts |-> adts,
   ret |-> "cont", value |-> 0, err |-> NoError, n_decode |-> 0, n_fetch |-> 0,
   n_fill |-> 0, n_header |-> 0, code1 |-> "", code2 |-> "", eos |-> FALSE,
   fetched |-> FALSE, sample_len |-> 0, consumed |-> 0, index |-> 0,
   held |-> bytes, fill_in |-> <<>>, fill_ok |-> FALSE, room |-> 0, request |-> 0,
   bytes_read |-> 0, frame_size |-> 0, sample_id |-> 0]

\* return Err(e)
Fail(r, e) == [r EXCEPT !.ret = "err", !.err = e]

\* return Ok(None)
\* A variant of Eof that reports the end of the stream as a sample-read error.
EofAsError(r) == [r EXCEPT !.ret = "err", !.err = SamplesError, !.eos = TRUE]

Eof(r) == [r EXCEPT !.ret = "none", !.eos = TRUE]

\* let value = self.current_pcm[self.current_pcm_index]; index += 1; Ok(Some(value))
Emit(r) ==
  IF r.current_pcm_index >= Len(r.current_pcm)
  THEN [r EXCEPT !.ret = "panic"]                \* index out of bounds
  ELSE [r EXCEPT !.ret = "item",
                 !.value = r.current_pcm[r.current_pcm_index + 1],
                 !.index = r.current_pcm_index,
                 !.current_pcm_index = @ + 1]

\* Err(NOT_ENOUGH_BITS) | Err(TRANSPORT_SYNC_ERROR) => refill and retry
\* A variant of IsRecoverable that retries after every failure.
IsAnyFailure(code) == code # "OK"

IsRecoverable(code) == code \in {NOT_ENOUGH_BITS, TRANSPORT_SYNC_ERROR}

\* tracks.get(&(self.track_id - 1)): the key the metadata is looked up under.
MetadataKey(id) == id - 1

\* self.bytes = [adts_bytes, sample.bytes].concat(); self.position += 1;
\* A variant of StoreFrame that leaves the position where it was.
StoreFrameNoAdvance(r, header, sample) == [r EXCEPT !.bytes = header \o sample]

StoreFrame(r, header, sample) ==
  [r EXCEPT !.bytes = header \o sample, !.position = @ + 1]

\* tracks.get(..).ok_or(Error::TrackNotFound)
\* A variant of NoTrackEntry that reports a missing entry as TrackReadingError.
NoTrackEntryAsReadingError == TrackReadingError

NoTrackEntry == TrackNotFound

\* The Reader::Mp4Reader arm.
FetchMp4(r, sampleErr) ==
  LET r1 == [r EXCEPT !.n_fetch = @ + 1, !.sample_id = r.position]
      samples == input.tracks[track_id].samples
  IN  IF sampleErr THEN Fail(r1, SamplesError)     \* read_sample(..) is Err
      ELSE IF r1.position > Len(samples) THEN Eof(r1)   \* None => return Ok(None)
      ELSE
        LET sample == samples[r1.position]
            r2 == [r1 EXCEPT !.fetched = TRUE, !.sample_len = Len(sample)]
        IN  IF MetadataKey(track_id) \notin DOMAIN input.tracks
            THEN Fail(r2, NoTrackEntry)
            ELSE
              LET track == input.tracks[MetadataKey(track_id)]
              IN  IF track.profile = "Err" THEN Fail(r2, TrackReadingError)
                  ELSE IF track.freq = 0 THEN Fail(r2, TrackReadingError)
                  ELSE IF track.chan = "Err" THEN Fail(r2, TrackReadingError)
                  ELSE
                    LET h == construct_adts_header(track.profile, track.freq,
                                                   track.chan, Len(sample))
                        r3 == [r2 EXCEPT !.n_header = @ + 1,
                                 !.adts = [called |-> TRUE,
                                           object_type |-> track.profile,
                                           sample_freq_index |-> track.freq,
                                           channel_config |-> track.chan,
                                           len |-> Len(sample), result |-> h]]
                    IN  IF ~h.ok THEN Fail(r3, UnsupportedObjectType(h.aot))
                        ELSE StoreFrame(r3, h.bytes, sample)

\* self.bytes.extend(new_bytes): what the raw arm appends, given the request
\* buffer new_bytes and the count the read returned.
\* A variant of Extended that drops what the buffer held before the read.
ExtendedReplacing(old, new_bytes, bytes_read) == new_bytes

Extended(old, new_bytes, bytes_read) == old \o new_bytes

\* The read sizes Read::read may return for a request of req bytes with rem
\* bytes left in the source: 0 only at the end of the source or for req = 0.
ReadSizes(req, rem) == IF Min(req, rem) = 0 THEN {0} ELSE 1..Min(req, rem)

\* 8192 - old_bytes_len: the length of the request buffer (usize arithmetic).
\* A variant of RequestSize that asks for a whole buffer every time.
RequestSizeWhole(old_bytes_len) == ByteCap

RequestSize(old_bytes_len) == ByteCap - old_bytes_len

\* The Reader::AacReader arm.
FetchAac(r, readErr, k) ==
  LET r0 == [r EXCEPT !.n_fetch = @ + 1]
      old_bytes_len == Len(r0.bytes)
      req == RequestSize(old_bytes_len)
  IN  IF req < 0 THEN [r0 EXCEPT !.ret = "panic", !.request = req]  \* usize underflow
      ELSE
        LET bytes_read == Min(k, Min(req, Len(input.src) - r0.src_pos))
            new_bytes == [i \in 1..req |->
                            IF i <= bytes_read THEN input.src[r0.src_pos + i] ELSE 0]
            r1 == [r0 EXCEPT !.request = req]
        IN  IF readErr THEN Fail(r1, ReaderError)
            ELSE IF bytes_read = 0 THEN Eof(r1)
            ELSE [r1 EXCEPT !.bytes = Extended(r1.bytes, new_bytes, bytes_read),
                            !.src_pos = @ + bytes_read,
                            !.fetched = TRUE,
                            !.bytes_read = bytes_read]

\* if decoded_frame_size < pcm.len() { pcm.split_off(decoded_frame_size) }
\* for the buffer pcm = vec![0; 8192] the decoder wrote `decoded` into.
\* A variant of Truncated that keeps the whole buffer.
TruncatedNever(decoded) ==
  [i \in 1..PcmCap |-> IF i <= Len(decoded) THEN decoded[i] ELSE 0]

Truncated(decoded) ==
  LET pcm == [i \in 1..PcmCap |-> IF i <= Len(decoded) THEN decoded[i] ELSE 0]
      decoded_frame_size == Len(decoded)
  IN  IF decoded_frame_size < Len(pcm) THEN SubSeq(pcm, 1, decoded_frame_size)
      ELSE pcm

\* From `if let Err(err) = result` to the end of the function.
Finish(r, d) ==
  IF d.code # "OK" THEN Fail(r, TrackDecodingError(d.code))
  ELSE Emit([r EXCEPT !.current_pcm = Truncated(d.pcm), !.current_pcm_index = 0,
                      !.frame_size = Len(d.pcm)])

\* One decode_frame call on the decoder of r.
Decode(r) ==
  LET d == DecodeFrame(r.dec)
  IN  [res |-> d,
       r |-> [r EXCEPT !.dec = d.buf, !.n_decode = @ + 1,
                       !.code1 = IF r.n_decode = 0 THEN d.code ELSE @,
                       !.code2 = IF r.n_decode = 0 THEN @ ELSE d.code]]

\* self.bytes[bytes_filled..].to_vec()
\* A variant of Unconsumed that keeps the bytes the decoder has taken.
UnconsumedKeepAll(b, bytes_filled) == b

Unconsumed(b, bytes_filled) == SubSeq(b, bytes_filled + 1, Len(b))

\* aac_decoder.fill(&self.bytes) and self.bytes = self.bytes[bytes_filled..].to_vec()
\* where the decoder reports `take` bytes as taken.
Fill(r, fillErr, take) ==
  LET r1 == [r EXCEPT !.n_fill = @ + 1, !.fill_in = r.bytes,
                      !.room = Min(Len(r.bytes), DecCap - Len(r.dec))]
      bytes_filled == take
  IN  IF fillErr THEN Fail(r1, TrackDecodingError(INVALID_HANDLE))
      ELSE [r1 EXCEPT !.dec = @ \o SubSeq(r1.bytes, 1, bytes_filled),
                      !.bytes = Unconsumed(r1.bytes, bytes_filled),
                      !.consumed = bytes_filled,
                      !.fill_ok = TRUE]

\* match &mut self.reader { Mp4Reader => ..., AacReader => ... }
Fetch(r, io) ==
  IF format = "Mp4" THEN FetchMp4(r, io.sampleErr) ELSE FetchAac(r, io.readErr, io.k)

\* The body of `if self.current_pcm_index == self.current_pcm.len() { ... }`.
Refill(r, io) ==
  LET a == Decode(r)
  IN  IF IsRecoverable(a.res.code)
      THEN LET f == Fetch(a.r, io)
           IN  IF f.ret # "cont" THEN f
               ELSE LET g == Fill(f, io.fillErr, io.take)
                    IN  IF g.ret # "cont" THEN g
                        ELSE LET b == Decode(g) IN Finish(b.r, b.res)
      ELSE Finish(a.r, a.res)

decode_next_sample(io) ==
  IF current_pcm_index = Len(current_pcm) THEN Refill(Start, io) ELSE Emit(Start)

\* The trace part of a call's record.
Trace(r) ==
  [ret |-> r.ret, value |-> r.value, err |-> r.err, n_decode |-> r.n_decode,
   n_fetch |-> r.n_fetch, n_fill |-> r.n_fill, n_header |-> r.n_header,
   code1 |-> r.code1, code2 |-> r.code2, eos |-> r.eos, fetched |-> r.fetched,
   sample_len |-> r.sample_len, consumed |-> r.consumed, index |-> r.index,
   held |-> r.held, fill_in |-> r.fill_in, fill_ok |-> r.fill_ok, room |-> r.room,
   request |-> r.request, bytes_read |-> r.bytes_read,
   frame_size |-> r.frame_size, sample_id |-> r.sample_id]

\* The counts the fill of a call may report, given what the readers do in it:
\* FillCounts of the decoder's buffer and the byte buffer at the fill, if the
\* call gets that far.  Like the collaborators' failures, a fill that takes less
\* than the decoder has room for happens only while the error slot is empty.
TakeChoices(io) ==
  LET a == Decode(Start)
      f == Fetch(a.r, io)
  IN  IF /\ current_pcm_index = Len(current_pcm)
         /\ IsRecoverable(a.res.code)
         /\ f.ret = "cont"
         /\ ~io.fillErr
      THEN IF iter_error = NoError THEN FillCounts(f.dec, f.bytes)
           ELSE {Min(Len(f.bytes), DecCap - Len(f.dec))}
      ELSE {0}

\* What the environment decides during one call: whether the read, the sample
\* read or the fill fails, how many bytes the read returns and how many the
\* fill takes.  A collaborator fails only while the error slot is still empty.
IoChoices ==
  LET flaky == IF iter_error = NoError THEN BOOLEAN ELSE {FALSE}
      readers == [readErr : IF format = "Aac" THEN flaky ELSE {FALSE},
                  sampleErr : IF format = "Mp4" THEN flaky ELSE {FALSE},
                  fillErr : flaky,
                  k : ReadSizes(ByteCap - Len(bytes), Len(input.src) - src_pos)]
  IN  UNION {{[readErr |-> io.readErr, sampleErr |-> io.sampleErr,
               fillErr |-> io.fillErr, k |-> io.k, take |-> c] :
                c \in TakeChoices(io)} : io \in readers}

\* Iterator::next: the slot iter_error is written when the call failed.
\* A variant of SlotAfter that keeps the first error recorded.
SlotAfterKeepFirst(r) ==
  IF r.ret = "err" /\ iter_error = NoError THEN r.err ELSE iter_error

SlotAfter(r) == IF r.ret = "err" THEN r.err ELSE iter_error

NextSample ==
  /\ ctor = "ok"
  /\ \E io \in IoChoices :
       LET r == decode_next_sample(io)
       IN  /\ bytes' = r.bytes
           /\ current_pcm_index' = r.current_pcm_index
           /\ current_pcm' = r.current_pcm
           /\ position' = r.position
           /\ dec' = r.dec
           /\ src_pos' = r.src_pos
           /\ adts' = r.adts
           /\ iter_error' = SlotAfter(r)
           /\ last' = Trace(r)
           /\ emitted' = IF r.ret = "item" THEN emitted + 1 ELSE emitted
           /\ starved' = (starved \/ (r.fill_ok /\ r.consumed < r.room))
           /\ ctor' = IF r.ret = "panic" THEN "panicked" ELSE ctor
  /\ UNCHANGED <<input, format, track_id>>

(***************************************************************************)
(* Specification of the decoder.                                           *)
(***************************************************************************)
Init ==
  /\ input \in RawInputs \cup Mp4Inputs
  /\ ctor = "none"
  /\ format = "none"
  /\ bytes = <<>>
  /\ current_pcm_index = 0
  /\ current_pcm = <<>>
  /\ track_id = 0
  /\ position = 0
  /\ iter_error = NoError
  /\ dec = <<>>
  /\ src_pos = 0
  /\ adts = NoHeaderCall
  /\ last = NoPull
  /\ emitted = 0
  /\ starved = FALSE

Next == NewAac \/ NewMpeg4 \/ NextSample

Spec == Init /\ [][Next]_vars

(***************************************************************************)
(* Specification of the header builder alone: construct_adts_header is     *)
(* applied once to arguments drawn from every object type, frequency index *)
(* and channel configuration with payload lengths around every power of    *)
(* two, and from every payload length in [0, MaxPayloadLen] with the four  *)
(* channel configurations that differ in the two bits next to the length.  *)
(***************************************************************************)
\* The largest value of the 13-bit frame-length field, and the payload length
\* that reaches it.
MaxFrameLength == Pow2(13) - 1

MaxPayloadLen == MaxFrameLength - adts_header_length

\* Payload lengths whose frame length is within 1 of a power of two, and the ends.
EdgeLens ==
  {0, 1, MaxPayloadLen} \cup
  {n \in UNION {{Pow2(j) - 8, Pow2(j) - 7, Pow2(j) - 6} : j \in 3..13} :
     n \in 0..MaxPayloadLen}

HeaderCall(object_type, sample_freq_index, channel_config, len) ==
  [called |-> FALSE, object_type |-> object_type,
   sample_freq_index |-> sample_freq_index, channel_config |-> channel_config,
   len |-> len, result |-> HeaderErr("")]

\* The calls with payload lengths in lens and every other argument, and those
\* with every payload length up to maxLen.
HeaderCalls(lens, maxLen) ==
  {HeaderCall(o, f, c, n) :
     o \in AudioObjectTypes, f \in SampleFreqIndexes, c \in ChannelConfigs, n \in lens}
  \cup {HeaderCall("AacLowComplexity", 44100, c, n) :
     c \in {"Mono", "Stereo", "Three", "Four"}, n \in 0..maxLen}

NoInput ==
  [kind |-> "none", src |-> <<>>, units |-> <<>>, parsable |-> FALSE,
   tracks |-> <<>>, order |-> <<>>]

InitAdts ==
  /\ adts \in HeaderCalls(EdgeLens, MaxPayloadLen)
  /\ input = NoInput
  /\ ctor = "none"
  /\ format = "none"
  /\ bytes = <<>>
  /\ current_pcm_index = 0
  /\ current_pcm = <<>>
  /\ track_id = 0
  /\ position = 0
  /\ iter_error = NoError
  /\ dec = <<>>
  /\ src_pos = 0
  /\ last = NoPull
  /\ emitted = 0
  /\ starved = FALSE

\* One call of construct_adts_header on the arguments in adts.
BuildHeader ==
  /\ ~adts.called
  /\ adts' = [adts EXCEPT
                !.called = TRUE,
                !.result = construct_adts_header(adts.object_type,
                             adts.sample_freq_index, adts.channel_config, adts.len)]
  /\ UNCHANGED decoderVars

NextAdts == BuildHeader

SpecAdts == InitAdts /\ [][NextAdts]_vars

(***************************************************************************)
(* Reading a header back: bit i (1 = most significant bit of byte 0) and   *)
(* the unsigned field of bits a..b.                                        *)
(***************************************************************************)
HeaderBit(h, i) == (h[((i - 1) \div 8) + 1] \div Pow2(7 - ((i - 1) % 8))) % 2

RECURSIVE HeaderField(_, _, _)
HeaderField(h, a, b) ==
  IF a > b THEN 0 ELSE 2 * HeaderField(h, a, b - 1) + HeaderBit(h, b)

\* The standard sampling-frequency table, index 0 first.
StdFrequencies ==
  <<96000, 88200, 64000, 48000, 44100, 32000, 24000, 22050, 16000, 12000,
    11025, 8000, 7350>>

\* The channel configurations, configuration 1 first.
StdChannelConfigs == <<"Mono", "Stereo", "Three", "Four", "Five", "FiveOne", "SevenOne">>

\* The builder returned a header for a supported object type and a payload
\* length in [0, MaxPayloadLen].
HeaderBuilt ==
  /\ adts.called
  /\ adts.object_type \in SupportedObjectTypes
  /\ adts.len \in 0..MaxPayloadLen

(***************************************************************************)
(* C1: for every supported object type, frequency index, channel           *)
(* configuration and payload length in [0, 8184] the builder returns       *)
(* exactly 7 bytes with sync word 0xFFF, MPEG version 0, layer 0,          *)
(* protection-absent 1, the frequency-index field equal to the given       *)
(* index, the channel-configuration field equal to the given               *)
(* configuration, buffer fullness 0x7FF and raw-blocks-minus-one 0.        *)
(***************************************************************************)
C1_HeaderFixedFields ==
  HeaderBuilt =>
    LET h == adts.result.bytes
    IN  /\ adts.result.ok
        /\ Len(h) = 7
        /\ \A i \in 1..7 : h[i] \in 0..255
        /\ HeaderField(h, 1, 12) = 4095
        /\ HeaderField(h, 13, 13) = 0
        /\ HeaderField(h, 14, 15) = 0
        /\ HeaderField(h, 16, 16) = 1
        /\ StdFrequencies[HeaderField(h, 19, 22) + 1] = adts.sample_freq_index
        /\ HeaderField(h, 24, 26) \in 1..7
        /\ StdChannelConfigs[HeaderField(h, 24, 26)] = adts.channel_config
        /\ HeaderField(h, 44, 54) = 2047
        /\ HeaderField(h, 55, 56) = 0

C1_Witness ==
  /\ HeaderBuilt
  /\ adts.result.ok
  /\ adts.object_type = "ParametricStereo"
  /\ adts.sample_freq_index = 7350
  /\ adts.channel_config = "SevenOne"
  /\ adts.len = MaxPayloadLen

(***************************************************************************)
(* C2: for every valid input the private bit (bit 23), original/copy (bit  *)
(* 27), home (bit 28), copyright id bit (bit 29) and copyright id start    *)
(* (bit 30) of the header are all 0.                                       *)
(***************************************************************************)
C2_FlagBitsZero ==
  (HeaderBuilt /\ adts.result.ok) =>
    \A i \in {23, 27, 28, 29, 30} : HeaderBit(adts.result.bytes, i) = 0

(***************************************************************************)
(* C3: for every payload length n in [0, 8184] the 13-bit frame-length     *)
(* field (bits 31..43) equals n + 7, and the other bits of bytes 3 and 5   *)
(* (bits 25..30 and 44..48) are those of the header built from the same    *)
(* arguments with an empty payload.                                        *)
(***************************************************************************)
C3_FrameLengthField ==
  (HeaderBuilt /\ adts.result.ok) =>
    LET h  == adts.result.bytes
        h0 == construct_adts_header(adts.object_type, adts.sample_freq_index,
                                    adts.channel_config, 0).bytes
    IN  /\ HeaderField(h, 31, 43) = adts.len + 7
        /\ HeaderField(h, 25, 30) = HeaderField(h0, 25, 30)
        /\ HeaderField(h, 44, 48) = HeaderField(h0, 44, 48)
        /\ HeaderField(h0, 31, 43) = 7

C3_Witness ==
  /\ HeaderBuilt
  /\ adts.result.ok
  /\ adts.len = 4089
  /\ HeaderField(adts.result.bytes, 31, 43) = 4096

(***************************************************************************)
(* C4: the builder writes profile field 1 (bits 17..18) when the object    *)
(* type is low-complexity, SBR or PS; for every other object type it       *)
(* returns no header and fails with UnsupportedObjectType carrying the     *)
(* object type it was given.                                               *)
(***************************************************************************)
C4_ProfileOrReject ==
  adts.called =>
    IF adts.object_type \in SupportedObjectTypes
    THEN /\ adts.result.ok
         /\ HeaderField(adts.result.bytes, 17, 18) = 1
    ELSE /\ ~adts.result.ok
         /\ adts.result.bytes = <<>>
         /\ UnsupportedObjectType(adts.result.aot) = UnsupportedObjectType(adts.object_type)

C4_Witness ==
  /\ adts.called
  /\ adts.object_type = "AacLongTermPrediction"
  /\ ~adts.result.ok
  /\ adts.result.aot = "AacLongTermPrediction"

(***************************************************************************)
(* Claims about the decoder.                                               *)
(***************************************************************************)
\* The latest next() returned: an item, no item without an error, or no item
\* with an error recorded.
Pulled == last.ret # ""

\* A collaborator (reader, demuxer sample read, decoder fill) has failed.
CollaboratorFailed ==
  iter_error \in {ReaderError, SamplesError, TrackDecodingError(INVALID_HANDLE)}

\* The samples the frames of a raw source decode to, in all.
RECURSIVE TotalSamples(_)
TotalSamples(units) ==
  IF units = <<>> THEN 0
  ELSE (Len(Head(units)) - adts_header_length) + TotalSamples(Tail(units))

\* The raw source is N concatenated valid ADTS frames.
ValidRawSource ==
  /\ format = "Aac"
  /\ \A i \in 1..Len(input.units) : input.units[i] \in ValidUnits

\* The track the constructor selected.
SelectedTrack == input.tracks[track_id]

\* The selected track has readable, supported codec parameters and only
\* samples the decoder can parse.
SoundTrack ==
  /\ format = "Mp4"
  /\ SelectedTrack.profile \in SupportedObjectTypes
  /\ SelectedTrack.freq \in SampleFreqIndexes
  /\ SelectedTrack.chan \in ChannelConfigs
  /\ \A i \in 1..Len(SelectedTrack.samples) : SelectedTrack.samples[i] # CorruptPayload

RECURSIVE TotalLen(_)
TotalLen(ss) == IF ss = <<>> THEN 0 ELSE Len(Head(ss)) + TotalLen(Tail(ss))

(***************************************************************************)
(* C5: in container mode, every sample fetched is framed by exactly one    *)
(* header-builder call that uses the codec parameters of the selected AAC  *)
(* track (the track the sample is read from) and the sample's payload      *)
(* length; after the last sample the sequence reports no more items, every *)
(* sample having been yielded, and the error slot is empty (no             *)
(* collaborator having failed and no fill having taken less than the       *)
(* decoder had room for).                                                  *)
(***************************************************************************)
C5_ContainerFramesEverySample ==
  (SoundTrack /\ Pulled /\ ~CollaboratorFailed /\ ~starved) =>
    /\ last.fetched =>
         /\ last.n_header = 1
         /\ adts.called
         /\ adts.object_type = SelectedTrack.profile
         /\ adts.sample_freq_index = SelectedTrack.freq
         /\ adts.channel_config = SelectedTrack.chan
         /\ adts.len = last.sample_len
    /\ last.ret # "item" =>
         /\ emitted = TotalLen(SelectedTrack.samples)
         /\ iter_error = NoError

(***************************************************************************)
(* C6: in raw mode, for a source of N concatenated valid ADTS frames       *)
(* delivered by reads of any sizes, once next() reports no more items the  *)
(* samples yielded number exactly the sum of the frames' sample counts and *)
(* the error slot is empty (no collaborator having failed and no fill      *)
(* having taken less than the decoder had room for).                       *)
(***************************************************************************)
C6_RawYieldsEveryFrame ==
  (ValidRawSource /\ Pulled /\ last.ret # "item" /\ ~CollaboratorFailed /\ ~starved) =>
    /\ emitted = TotalSamples(input.units)
    /\ iter_error = NoError

(***************************************************************************)
(* C7: new_mpeg4 on a parsed container fails with TrackNotFound, leaving   *)
(* no Decoder, exactly when no track has media type AAC; otherwise it      *)
(* succeeds with track id the first track visited whose media type is AAC, *)
(* position 1, empty byte buffer, empty PCM block, cursor 0 and an empty   *)
(* error slot.                                                             *)
(***************************************************************************)
C7_TrackSelection ==
  (input.kind = "mp4" /\ input.parsable /\ ctor # "none" /\ ~Pulled) =>
    IF \A id \in DOMAIN input.tracks : input.tracks[id].media # "AAC"
    THEN /\ ctor = "TrackNotFound"
         /\ format = "none"
    ELSE /\ ctor = "ok"
         /\ format = "Mp4"
         /\ \E i \in 1..Len(input.order) :
              /\ input.order[i] = track_id
              /\ input.tracks[track_id].media = "AAC"
              /\ \A j \in 1..(i - 1) : input.tracks[input.order[j]].media # "AAC"
         /\ position = 1
         /\ bytes = <<>>
         /\ current_pcm = <<>>
         /\ current_pcm_index = 0
         /\ iter_error = NoError

C7_Witness ==
  /\ input.kind = "mp4"
  /\ input.parsable
  /\ ~Pulled
  /\ ctor = "ok"
  /\ input.order = <<1, 2>>
  /\ input.tracks[1].media = "H264"
  /\ track_id = 2

(***************************************************************************)
(* C8: when the first decode step of a pull fails with not-enough-bits or  *)
(* transport-sync-error, the fetch and the fill succeed and the retried    *)
(* decode step fails with a code c, the pull yields no item, the error     *)
(* slot holds TrackDecodingError(c), the decode step was attempted exactly *)
(* twice and the source was fetched exactly once.                          *)
(***************************************************************************)
C8_RetryFailsOnce ==
  (Pulled /\ last.code1 \in {NOT_ENOUGH_BITS, TRANSPORT_SYNC_ERROR}
          /\ last.code2 \in DecoderErrors) =>
    /\ last.ret = "err"
    /\ iter_error = TrackDecodingError(last.code2)
    /\ last.n_decode = 2
    /\ last.n_fetch = 1
    /\ last.n_fill = 1

C8_Witness ==
  /\ Pulled
  /\ last.code1 = NOT_ENOUGH_BITS
  /\ last.code2 = PARSE_ERROR
  /\ last.n_decode = 2
  /\ iter_error = TrackDecodingError(PARSE_ERROR)

(***************************************************************************)
(* C9: every failure of a pull is stored in the error slot, overwriting    *)
(* what it held, and once a pull has recorded an error no later pull       *)
(* yields a sample.                                                        *)
(***************************************************************************)
C9_ErrorEndsSequence ==
  Pulled =>
    /\ last.ret = "err" => iter_error = last.err
    /\ iter_error # NoError => last.ret # "item"

(***************************************************************************)
(* C10: a pull whose fetch meets the end of the stream yields no item and  *)
(* leaves the error slot, the position, the byte buffer, the PCM block and *)
(* the cursor as they were; it performs no fill and no second decode step. *)
(***************************************************************************)
C10_EndOfStreamChangesNothing ==
  [][ (last'.eos /\ last'.n_fetch = 1) =>
        /\ last'.ret = "none"
        /\ iter_error' = iter_error
        /\ position' = position
        /\ bytes' = bytes
        /\ current_pcm' = current_pcm
        /\ current_pcm_index' = current_pcm_index
        /\ emitted' = emitted
        /\ last'.n_fill = 0
        /\ last'.n_decode = 1 ]_vars

C10_Witness ==
  /\ last.eos
  /\ last.ret = "none"
  /\ iter_error # NoError
  /\ bytes # <<>>
  /\ current_pcm # <<>>

(***************************************************************************)
(* C11: in container mode, when a pull fetches a sample while the byte     *)
(* buffer still holds bytes an earlier fill left unconsumed, the buffer    *)
(* handed to the fill is those bytes followed by the new header and the    *)
(* sample's payload: no unconsumed byte is dropped.                        *)
(***************************************************************************)
C11_ContainerFetchAppends ==
  (format = "Mp4" /\ Pulled /\ last.n_fill = 1) =>
    last.fill_in = last.held \o adts.result.bytes
                             \o SelectedTrack.samples[last.sample_id]

(***************************************************************************)
(* C12: in raw mode a fetch requests at most ByteCap minus the buffered    *)
(* length and appends to the byte buffer exactly the k bytes the read      *)
(* returned; so the byte buffer is always the source bytes that end at the *)
(* read position (what the fills consumed followed by the byte buffer is a *)
(* prefix of the source).                                                  *)
(***************************************************************************)
C12_RawAppendsBytesRead ==
  (format = "Aac" /\ Pulled) =>
    /\ last.fetched =>
          /\ last.request <= ByteCap - Len(last.held)
          /\ last.bytes_read <= last.request
          /\ last.fill_in =
               last.held \o SubSeq(input.src, src_pos - last.bytes_read + 1, src_pos)
    /\ Len(bytes) <= src_pos
    /\ bytes = SubSeq(input.src, src_pos - Len(bytes) + 1, src_pos)

(***************************************************************************)
(* C13: after a fill that reports c bytes consumed from a byte buffer of   *)
(* content b, the byte buffer is b without its first c bytes (length       *)
(* |b| - c, order kept); after a fill that failed it is b unchanged.       *)
(***************************************************************************)
C13_FillKeepsUnconsumedSuffix ==
  (Pulled /\ last.n_fill = 1) =>
    LET b == last.fill_in
        c == last.consumed
    IN  IF last.fill_ok
        THEN /\ c \in 0..Len(b)
             /\ Len(bytes) = Len(b) - c
             /\ \A i \in 1..Len(bytes) : bytes[i] = b[c + i]
        ELSE /\ last.ret = "err"
             /\ bytes = b

\* A fill took some but not all of a byte buffer whose bytes differ.
C13_Witness ==
  /\ Pulled
  /\ last.n_fill = 1
  /\ last.fill_ok
  /\ last.consumed > 0
  /\ last.consumed < Len(last.fill_in)
  /\ bytes # <<>>
  /\ bytes # SubSeq(last.fill_in, 1, Len(bytes))

\* A fill failed on a byte buffer that was not empty.
C13_WitnessFailedFill ==
  /\ Pulled
  /\ last.n_fill = 1
  /\ ~last.fill_ok
  /\ last.fill_in # <<>>

(***************************************************************************)
(* C14: after a successful decode step for which the decoder reports a     *)
(* frame size s with 1 <= s <= PcmCap, the PCM block has length exactly s  *)
(* and the pull that decoded emits entry 0; every pull that finds the      *)
(* cursor below the block length emits the entry at the cursor and moves   *)
(* the cursor by one, with no decode step, fetch or fill and the block     *)
(* unchanged; a pull that finds the cursor at the block length starts with *)
(* a decode step.  So the s entries are emitted in order by s consecutive  *)
(* pulls and no entry at an index >= s is ever emitted.                    *)
(***************************************************************************)
C14_BlockEmittedInOrder ==
  [][ ctor = "ok" =>
        /\ (last'.ret = "item" /\ last'.n_decode >= 1 /\ last'.frame_size >= 1) =>
              /\ last'.frame_size <= PcmCap
              /\ Len(current_pcm') = last'.frame_size
              /\ last'.index = 0
              /\ last'.value = current_pcm'[1]
              /\ current_pcm_index' = 1
        /\ current_pcm_index < Len(current_pcm) =>
              /\ last'.ret = "item"
              /\ last'.n_decode = 0
              /\ last'.n_fetch = 0
              /\ last'.n_fill = 0
              /\ last'.index = current_pcm_index
              /\ last'.value = current_pcm[current_pcm_index + 1]
              /\ current_pcm' = current_pcm
              /\ current_pcm_index' = current_pcm_index + 1
              /\ emitted' = emitted + 1
        /\ current_pcm_index = Len(current_pcm) => last'.n_decode >= 1
        /\ last'.ret = "item" => last'.index < Len(current_pcm') ]_vars

\* The last entry of a block of two or more entries has been emitted.
C14_Witness ==
  /\ last.ret = "item"
  /\ last.n_decode = 0
  /\ Len(current_pcm) >= 2
  /\ last.index = Len(current_pcm) - 1
  /\ current_pcm_index = Len(current_pcm)
  /\ last.value = current_pcm[Len(current_pcm)]

(***************************************************************************)
(* C15: when the first decode step of a pull fails with a code other than  *)
(* not-enough-bits and transport-sync-error, the pull makes no fetch, no   *)
(* fill and no second decode step, fails with TrackDecodingError carrying  *)
(* that code, and leaves the position, the byte buffer, the PCM block and  *)
(* the cursor as they were.                                                *)
(***************************************************************************)
C15_FatalFirstDecode ==
  [][ (ctor = "ok" /\ last'.n_decode >= 1
         /\ last'.code1 \in DecoderErrors \ {NOT_ENOUGH_BITS, TRANSPORT_SYNC_ERROR}) =>
        /\ last'.n_fetch = 0
        /\ last'.n_fill = 0
        /\ last'.n_header = 0
        /\ last'.n_decode = 1
        /\ last'.ret = "err"
        /\ last'.err = TrackDecodingError(last'.code1)
        /\ iter_error' = TrackDecodingError(last'.code1)
        /\ position' = position
        /\ bytes' = bytes
        /\ src_pos' = src_pos
        /\ current_pcm' = current_pcm
        /\ current_pcm_index' = current_pcm_index
        /\ emitted' = emitted ]_vars

\* A pull whose first decode step met a frame the decoder cannot parse, with
\* bytes buffered.
C15_Witness ==
  /\ last.n_decode = 1
  /\ last.code1 = PARSE_ERROR
  /\ last.ret = "err"
  /\ iter_error = TrackDecodingError(PARSE_ERROR)
  /\ bytes # <<>>

(***************************************************************************)
(* C16: in container mode the position is 1 at construction; a pull that   *)
(* fetches asks for the sample at the position; the position moves by      *)
(* exactly one in a pull that read a sample and built its header, and      *)
(* stays in every other pull (end of track, sample-read failure, metadata  *)
(* failure, header-builder failure, pull served from the PCM block).  So   *)
(* the position is 1 plus the number of samples read and framed so far and *)
(* the samples are asked for at 1, 2, 3, ... with none skipped or asked    *)
(* for again once framed.                                                  *)
(***************************************************************************)
C16_PositionCountsFramedSamples ==
  [][ format' = "Mp4" =>
        /\ ctor = "none" => position' = 1
        /\ ctor = "ok" =>
              LET framed == /\ last'.n_fetch = 1
                            /\ last'.fetched
                            /\ last'.n_header = 1
                            /\ adts'.result.ok
              IN  /\ last'.n_fetch = 1 => last'.sample_id = position
                  /\ last'.n_fetch = 0 => ~last'.fetched
                  /\ position' = IF framed THEN position + 1 ELSE position
                  /\ framed => /\ ~last'.eos
                                /\ last'.err \notin {SamplesError, TrackNotFound,
                                                      TrackReadingError}
                                /\ last'.err.e # "UnsupportedObjectType" ]_vars

\* Every sample of a track of MaxSamples samples has been framed and the pull
\* after the last one met the end of the track.
C16_Witness ==
  /\ format = "Mp4"
  /\ Len(SelectedTrack.samples) = MaxSamples
  /\ position = MaxSamples + 1
  /\ last.eos
  /\ last.sample_id = MaxSamples + 1

\* A pull that left the position because the header builder failed.
C16_WitnessBuilderFailure ==
  /\ format = "Mp4"
  /\ last.n_header = 1
  /\ iter_error.e = "UnsupportedObjectType"
  /\ position = 1

(***************************************************************************)
(* Container-mode fetches that fail.                                       *)
(***************************************************************************)
\* The latest pull fetched in container mode.
FetchedMp4 == format = "Mp4" /\ Pulled /\ last.n_fetch = 1

\* Its sample read failed: no sample, and not the end of the track.
SampleReadFailed == FetchedMp4 /\ ~last.fetched /\ ~last.eos

\* It got a sample and found no track entry under the key it looked up.
TrackEntryMissing ==
  FetchedMp4 /\ last.fetched /\ MetadataKey(track_id) \notin DOMAIN input.tracks

\* It got a sample and a track entry, one of whose accessors failed.
AccessorFailed ==
  /\ FetchedMp4
  /\ last.fetched
  /\ MetadataKey(track_id) \in DOMAIN input.tracks
  /\ LET track == input.tracks[MetadataKey(track_id)]
     IN  track.profile = "Err" \/ track.freq = 0 \/ track.chan = "Err"

\* It called the header builder, which rejected the object type.
BuilderRejected == FetchedMp4 /\ last.n_header = 1 /\ ~adts.result.ok

\* The pull failed with error e and e is what the error slot holds.
Surfaced(e) == last.ret = "err" /\ last.err = e /\ iter_error = e

C17_WitnessAccessor == AccessorFailed /\ iter_error = TrackReadingError

C17_WitnessBuilder ==
  BuilderRejected /\ iter_error = UnsupportedObjectType("AacMain")

C17_WitnessSampleRead == SampleReadFailed /\ iter_error = SamplesError

(***************************************************************************)
(* C18: in raw mode a pull reports no more items without an error only     *)
(* when the source is exhausted: never while unread source bytes remain.   *)
(***************************************************************************)
C18_EndOfStreamOnlyAtEnd ==
  (format = "Aac" /\ Pulled /\ last.ret = "none") => src_pos = Len(input.src)

\* The latest pull indexed the PCM block out of range.
OutOfRangeRead == last.ret = "panic" /\ last.request >= 0

(***************************************************************************)
(* C19: in every reachable state 0 <= cursor <= PCM block length, every    *)
(* pull that emits a sample reads the block at an index below its length,  *)
(* and no pull reads the block out of range, whatever frame size the       *)
(* decoder reports after a successful decode step, 0 included.             *)
(***************************************************************************)
C19_CursorWithinBlock ==
  /\ current_pcm_index \in 0..Len(current_pcm)
  /\ last.ret = "item" => last.index < Len(current_pcm)
  /\ ~OutOfRangeRead

(***************************************************************************)
(* C20: in raw mode the byte buffer never holds more than ByteCap bytes,   *)
(* whatever the read sizes and the fill counts, so the request size        *)
(* ByteCap minus the buffered length computed at each fetch is never       *)
(* negative.                                                               *)
(***************************************************************************)
C20_ByteBufferBounded ==
  format = "Aac" =>
    /\ Len(bytes) <= ByteCap
    /\ last.request >= 0
    /\ last.n_fetch = 1 =>
          /\ Len(last.held) <= ByteCap
          /\ last.request = ByteCap - Len(last.held)
    /\ last.n_fill = 1 => Len(last.fill_in) <= ByteCap

\* A fetch found the byte buffer full, an earlier fill having taken nothing,
\* and asked for 0 bytes.
C20_Witness ==
  /\ format = "Aac"
  /\ starved
  /\ last.n_fetch = 1
  /\ Len(last.held) = ByteCap
  /\ last.request = 0
  /\ Len(bytes) = ByteCap

====
